---- MODULE Spec2Model ----
(***************************************************************************)
(* A model of the Inquiry Cup match core: the clock (clock.ts), the match  *)
(* engine (engine/engine.ts) and the script validator (validator.ts).      *)
(*                                                                         *)
(* Optional fields of a script event are modelled by the record's DOMAIN:  *)
(* an event without `actor` is a record with no "actor" field.  A JS       *)
(* truthiness test on a string field (`if (event.to)`) is Truthy: the      *)
(* field is present and is not the empty string.                           *)
(***************************************************************************)
EXTENDS Integers, Sequences, FiniteSets, TLC

VARIABLES
  state,    \* MatchEngine.state: the MatchState the engine mutates
  i,        \* the loop index of MatchEngine.run: events applied so far
  event,    \* the event the loop applied last (this.events[i-1])
  clk,      \* clock specification: the ClockState under test
  clkArg,   \* clock specification: the (minute, added) every call passes
  clkCalls, \* clock specification: calls of advanceClock made so far
  doc,      \* validator specification: the raw document given to validate
  result,   \* validator specification: the ValidationResult, once returned
  thisEvents, \* MatchEngine.events, when the script is fixed at construction
  load,     \* loadMatchScript: not called, returned a script, or threw
  run,      \* MatchEngine.run: where its control is, and options
  log       \* every call run() has awaited, in order, with its outcome

engineVars == <<state, i, event>>
clockVars == <<clk, clkArg, clkCalls>>
validatorVars == <<doc, result>>
runVars == <<thisEvents, load, run, log>>
vars ==
  <<state, i, event, clk, clkArg, clkCalls, doc, result, thisEvents, load, run,
    log>>

----------------------------------------------------------------------------
(* Bounds *)

\* Longest script the engine specification replays.
MaxEvents == 3
\* Calls of advanceClock the clock specification makes with one argument.
MaxClockCalls == 2
\* Participant slots a validator document renames to an existing name.
MaxDups == 2
\* Longest event list of a validator document of the event family.
MaxDocEvents == 2
\* Longest script the possession specification replays.
MaxDeepEvents == 4
\* Longest script the dispatching run replays.
MaxRunEvents == 2
\* Most dispatchers registered with the engine.
MaxDispatchers == 2
\* Longest script the score specification replays.
MaxScoreEvents == 3

----------------------------------------------------------------------------
(* Values *)

\* ball.holder === null
Null == "<null>"
\* the value of an optional string field that is absent
Undefined == "<undefined>"
\* `event` before the first loop iteration
NoEvent == [type |-> "<none>"]

Has(ev, f) == f \in DOMAIN ev
Field(ev, f) == IF f \in DOMAIN ev THEN ev[f] ELSE Undefined
\* JS truthiness of an optional string field
Truthy(ev, f) == f \in DOMAIN ev /\ ev[f] # ""
\* an optional number as a 0- or 1-element sequence
OptNum(ev, f) == IF f \in DOMAIN ev THEN <<ev[f]>> ELSE <<>>

----------------------------------------------------------------------------
(* The roster the engine is constructed from (script.match): a validated  *)
(* script has thirteen distinct names, ten of them players.                *)

HomeTender == "HT"
HomeField == <<"HD", "HML", "HMR", "HF">>
AwayTender == "AT"
AwayField == <<"AD", "AML", "AMR", "AF">>

Range(seq) == {seq[k] : k \in 1..Len(seq)}
HomeNames == {HomeTender} \cup Range(HomeField)
AwayNames == {AwayTender} \cup Range(AwayField)
PlayerNames == HomeNames \cup AwayNames

Center == <<0, 0>>

\* defaultPositions(team): the five formation slots, tender first
defaultPositions(team) ==
  LET sign == IF team = "home" THEN -1 ELSE 1
  IN [tender           |-> <<sign * 46, 0>>,
      defender         |-> <<sign * 30, 0>>,
      midfielder_left  |-> <<sign * 15, -12>>,
      midfielder_right |-> <<sign * 15, 12>>,
      forward          |-> <<sign * 5, 0>>]

----------------------------------------------------------------------------
(* Clock *)

Periods == {"pre", "first_half", "halftime", "second_half", "fulltime"}

initialClock == [minute |-> 0, added |-> 0, period |-> "pre"]

\* derivePeriod with the first half ending before minute 45
derivePeriodBefore45(minute, currentPeriod) ==
  IF currentPeriod = "pre" /\ minute = 0 THEN "first_half"
  ELSE IF currentPeriod = "halftime" THEN "second_half"
  ELSE IF minute < 45 THEN "first_half"
  ELSE "second_half"

derivePeriod(minute, currentPeriod) ==
  IF currentPeriod = "pre" /\ minute = 0 THEN "first_half"
  ELSE IF currentPeriod = "halftime" THEN "second_half"
  ELSE IF minute <= 45 THEN "first_half"
  ELSE "second_half"

\* `added` is <<>> (absent) or <<n>>
advanceClock(current, minute, added) ==
  [minute |-> minute,
   added  |-> IF added = <<>> THEN 0 ELSE added[1],
   period |-> derivePeriod(minute, current.period)]

----------------------------------------------------------------------------
(* Engine state *)

PlayerRecord(team, position) ==
  [team |-> team, position |-> position, hasBall |-> FALSE,
   onPitch |-> TRUE, cards |-> <<>>]

initializeState(totalEvents) ==
  LET homePos == defaultPositions("home")
      awayPos == defaultPositions("away")
      homeFieldPositions == <<homePos.defender, homePos.midfielder_left,
                              homePos.midfielder_right, homePos.forward>>
      awayFieldPositions == <<awayPos.defender, awayPos.midfielder_left,
                              awayPos.midfielder_right, awayPos.forward>>
      players ==
        [n \in PlayerNames |->
           IF n = HomeTender THEN PlayerRecord("home", homePos.tender)
           ELSE IF n \in Range(HomeField)
             THEN PlayerRecord("home",
                    homeFieldPositions[CHOOSE k \in 1..4 : HomeField[k] = n])
           ELSE IF n = AwayTender THEN PlayerRecord("away", awayPos.tender)
           ELSE PlayerRecord("away",
                    awayFieldPositions[CHOOSE k \in 1..4 : AwayField[k] = n])]
  IN [clock       |-> initialClock,
      score       |-> [home |-> 0, away |-> 0],
      ball        |-> [holder |-> Null, position |-> Center, dead |-> TRUE],
      players     |-> players,
      eventIndex  |-> 0,
      totalEvents |-> totalEvents]

\* this.state.players.get(name) is defined
IsPlayer(s, name) == name \in DOMAIN s.players

\* giveBall refusing a player who has left the pitch
giveBallOnPitchOnly(s, playerName) ==
  LET s1 == IF s.ball.holder # Null /\ IsPlayer(s, s.ball.holder)
            THEN [s EXCEPT !.players[s.ball.holder].hasBall = FALSE]
            ELSE s
  IN IF IsPlayer(s1, playerName) /\ s1.players[playerName].onPitch
     THEN [s1 EXCEPT !.players[playerName].hasBall = TRUE,
                     !.ball = [holder   |-> playerName,
                               position |-> s1.players[playerName].position,
                               dead     |-> FALSE]]
     ELSE s1

\* giveBall leaving the previous holder's flag set
giveBallKeepsPrevious(s, playerName) ==
  IF IsPlayer(s, playerName)
  THEN [s EXCEPT !.players[playerName].hasBall = TRUE,
                 !.ball = [holder   |-> playerName,
                           position |-> s.players[playerName].position,
                           dead     |-> FALSE]]
  ELSE s

giveBall(s, playerName) ==
  LET s1 == IF s.ball.holder # Null /\ IsPlayer(s, s.ball.holder)
            THEN [s EXCEPT !.players[s.ball.holder].hasBall = FALSE]
            ELSE s
  IN IF IsPlayer(s1, playerName)
     THEN [s1 EXCEPT !.players[playerName].hasBall = TRUE,
                     !.ball = [holder   |-> playerName,
                               position |-> s1.players[playerName].position,
                               dead     |-> FALSE]]
     ELSE s1

\* applyWhistle without the period forcing of lines 169-174
applyWhistleNoPeriod(s, ev) ==
  LET reason == Field(ev, "reason")
  IN IF reason = "kickoff"
       THEN giveBall([s EXCEPT !.ball.dead = FALSE], HomeTender)
     ELSE IF reason = "halftime" \/ reason = "fulltime"
       THEN [s EXCEPT !.ball = [holder |-> Null, position |-> Center,
                                dead |-> TRUE]]
     ELSE IF reason = "stoppage" THEN [s EXCEPT !.ball.dead = TRUE]
     ELSE IF reason = "restart" THEN [s EXCEPT !.ball.dead = FALSE]
     ELSE s

\* applyWhistle with a stoppage that also takes the ball from its holder
applyWhistleStoppageClears(s, ev) ==
  LET reason == Field(ev, "reason")
      s1 == IF reason = "kickoff"
              THEN giveBall([s EXCEPT !.ball.dead = FALSE], HomeTender)
            ELSE IF reason = "halftime" \/ reason = "fulltime"
              THEN [s EXCEPT !.ball = [holder |-> Null, position |-> Center,
                                       dead |-> TRUE]]
            ELSE IF reason = "stoppage"
              THEN [s EXCEPT !.ball.dead = TRUE, !.ball.holder = Null]
            ELSE IF reason = "restart" THEN [s EXCEPT !.ball.dead = FALSE]
            ELSE s
      s2 == IF reason = "halftime"
            THEN [s1 EXCEPT !.clock.period = "halftime"] ELSE s1
  IN IF reason = "fulltime"
     THEN [s2 EXCEPT !.clock.period = "fulltime"] ELSE s2

applyWhistle(s, ev) ==
  LET reason == Field(ev, "reason")
      s1 == IF reason = "kickoff"
              THEN giveBall([s EXCEPT !.ball.dead = FALSE], HomeTender)
            ELSE IF reason = "halftime" \/ reason = "fulltime"
              THEN [s EXCEPT !.ball = [holder |-> Null, position |-> Center,
                                       dead |-> TRUE]]
            ELSE IF reason = "stoppage" THEN [s EXCEPT !.ball.dead = TRUE]
            ELSE IF reason = "restart" THEN [s EXCEPT !.ball.dead = FALSE]
            ELSE s
      s2 == IF reason = "halftime"
            THEN [s1 EXCEPT !.clock.period = "halftime"] ELSE s1
  IN IF reason = "fulltime"
     THEN [s2 EXCEPT !.clock.period = "fulltime"] ELSE s2

applyHalftime(s) ==
  [s EXCEPT !.clock.period = "halftime",
            !.ball = [holder |-> Null, position |-> Center, dead |-> TRUE]]

\* applyFulltime putting the ball back to the center as halftime does
applyFulltimeCentered(s) ==
  [s EXCEPT !.clock.period = "fulltime",
            !.ball = [holder |-> Null, position |-> Center, dead |-> TRUE]]

applyFulltime(s) ==
  [s EXCEPT !.clock.period = "fulltime",
            !.ball.dead = TRUE,
            !.ball.holder = Null]

applyPass(s, ev) ==
  IF Truthy(ev, "to") THEN giveBall(s, ev.to) ELSE s

applyIntercept(s, ev) ==
  IF Truthy(ev, "actor") THEN giveBall(s, ev.actor) ELSE s

applyHold(s, ev) ==
  IF Truthy(ev, "actor") THEN giveBall(s, ev.actor) ELSE s

applyMove(s, ev) ==
  IF Truthy(ev, "actor") /\ Has(ev, "position") /\ IsPlayer(s, ev.actor)
  THEN [s EXCEPT !.players[ev.actor].position = ev.position]
  ELSE s

applyExit(s, ev) ==
  IF Truthy(ev, "actor") /\ IsPlayer(s, ev.actor)
  THEN LET s1 == [s EXCEPT !.players[ev.actor].onPitch = FALSE]
       IN IF s1.players[ev.actor].hasBall
          THEN [s1 EXCEPT !.players[ev.actor].hasBall = FALSE,
                          !.ball.dead = TRUE,
                          !.ball.holder = Null]
          ELSE s1
  ELSE s

\* applyCard with a red card that also sends the player off
applyCardRedExits(s, ev) ==
  IF Truthy(ev, "actor") /\ Has(ev, "card") /\ IsPlayer(s, ev.actor)
  THEN [s EXCEPT !.players[ev.actor].cards = Append(@, ev.card),
                 !.players[ev.actor].onPitch =
                    IF ev.card = "red" THEN FALSE ELSE @]
  ELSE s

applyCard(s, ev) ==
  IF Truthy(ev, "actor") /\ Has(ev, "card") /\ IsPlayer(s, ev.actor)
  THEN [s EXCEPT !.players[ev.actor].cards = Append(@, ev.card)]
  ELSE s

\* applyGoal crediting the side the scorer does not play for
applyGoalSwapped(s, ev) ==
  IF Truthy(ev, "actor")
  THEN LET s1 == IF IsPlayer(s, ev.actor)
                 THEN IF s.players[ev.actor].team = "home"
                      THEN [s EXCEPT !.score.away = @ + 1]
                      ELSE [s EXCEPT !.score.home = @ + 1]
                 ELSE s
       IN [s1 EXCEPT !.ball = [holder |-> Null, position |-> Center,
                               dead |-> TRUE]]
  ELSE s

\* applyGoal crediting the away side for a scorer who is no player
applyGoalAnyActor(s, ev) ==
  IF Truthy(ev, "actor")
  THEN LET s1 == IF IsPlayer(s, ev.actor) /\ s.players[ev.actor].team = "home"
                 THEN [s EXCEPT !.score.home = @ + 1]
                 ELSE [s EXCEPT !.score.away = @ + 1]
       IN [s1 EXCEPT !.ball = [holder |-> Null, position |-> Center,
                               dead |-> TRUE]]
  ELSE s

applyGoal(s, ev) ==
  IF Truthy(ev, "actor")
  THEN LET s1 == IF IsPlayer(s, ev.actor)
                 THEN IF s.players[ev.actor].team = "home"
                      THEN [s EXCEPT !.score.home = @ + 1]
                      ELSE [s EXCEPT !.score.away = @ + 1]
                 ELSE s
       IN [s1 EXCEPT !.ball = [holder |-> Null, position |-> Center,
                               dead |-> TRUE]]
  ELSE s

applyDeadBall(s) ==
  [s EXCEPT !.ball = [holder |-> Null, position |-> Center, dead |-> TRUE]]

\* applyEvent with a penalty that stops play
applyEventPenaltyStops(s, ev) ==
  CASE ev.type = "whistle"   -> applyWhistle(s, ev)
    [] ev.type = "halftime"  -> applyHalftime(s)
    [] ev.type = "fulltime"  -> applyFulltime(s)
    [] ev.type = "pass"      -> applyPass(s, ev)
    [] ev.type = "intercept" -> applyIntercept(s, ev)
    [] ev.type = "hold"      -> applyHold(s, ev)
    [] ev.type = "move"      -> applyMove(s, ev)
    [] ev.type = "exit"      -> applyExit(s, ev)
    [] ev.type = "card"      -> applyCard(s, ev)
    [] ev.type = "goal"      -> applyGoal(s, ev)
    [] ev.type = "dead_ball" -> applyDeadBall(s)
    [] ev.type = "penalty"   -> [s EXCEPT !.ball.dead = TRUE]
    [] OTHER                 -> s

applyEvent(s, ev) ==
  CASE ev.type = "whistle"   -> applyWhistle(s, ev)
    [] ev.type = "halftime"  -> applyHalftime(s)
    [] ev.type = "fulltime"  -> applyFulltime(s)
    [] ev.type = "pass"      -> applyPass(s, ev)
    [] ev.type = "intercept" -> applyIntercept(s, ev)
    [] ev.type = "hold"      -> applyHold(s, ev)
    [] ev.type = "move"      -> applyMove(s, ev)
    [] ev.type = "exit"      -> applyExit(s, ev)
    [] ev.type = "card"      -> applyCard(s, ev)
    [] ev.type = "goal"      -> applyGoal(s, ev)
    [] ev.type = "dead_ball" -> applyDeadBall(s)
    [] OTHER                 -> s

----------------------------------------------------------------------------
(* The validator.  A raw document is modelled by the parts the validator   *)
(* and the schema's constraints read:                                      *)
(*   [kind |-> "scalar"]            a YAML value that is not a mapping     *)
(*   [kind |-> "script", match |-> [home, away, officials], events |-> s]  *)
(* a team is [code, tender, field]: the code a sequence of characters, the *)
(* tender a name, the field a sequence of names; officials are names.  The *)
(* parts left out (id, season, title, display names, roles, voices) are    *)
(* taken to satisfy the schema.                                            *)

EventTypes ==
  {"whistle", "dead_ball", "speak", "announce", "comment", "pass",
   "intercept", "hold", "move", "exit", "card", "penalty", "goal", "pause",
   "halftime", "fulltime"}
CardTypes == {"yellow", "red"}

UpperOf(c) ==
  CASE c = "h" -> "H" [] c = "o" -> "O" [] c = "m" -> "M" [] c = "e" -> "E"
    [] OTHER -> c
\* z.string().toUpperCase() on a sequence of characters
ToUpperCase(code) == [k \in 1..Len(code) |-> UpperOf(code[k])]

Issue(path, message) == [tag |-> "schema", path |-> path, message |-> message]

\* TeamSchema: code has length 3, field has length 4
TeamIssues(side, team) ==
     (IF Len(team.code) # 3
      THEN <<Issue(<<"match", side, "code">>, "String must contain exactly 3 character(s)")>>
      ELSE <<>>)
  \o (IF Len(team.field) # 4
      THEN <<Issue(<<"match", side, "field">>, "Array must contain exactly 4 element(s)")>>
      ELSE <<>>)

\* MatchEventSchema on event k (0-based) of the list
EventIssues(ev, k) ==
     (IF ev.minute < 0 \/ ev.minute > 90
      THEN <<Issue(<<"events", k, "minute">>, "Number out of range")>> ELSE <<>>)
  \o (IF Has(ev, "added") /\ ev.added < 0
      THEN <<Issue(<<"events", k, "added">>, "Number out of range")>> ELSE <<>>)
  \o (IF ev.type \notin EventTypes
      THEN <<Issue(<<"events", k, "type">>, "Invalid enum value")>> ELSE <<>>)
  \o (IF Has(ev, "position") /\ ~(/\ ev.position[1] \in -50..50
                                  /\ ev.position[2] \in -35..35)
      THEN <<Issue(<<"events", k, "position">>, "Number out of range")>> ELSE <<>>)
  \o (IF Has(ev, "card") /\ ev.card \notin CardTypes
      THEN <<Issue(<<"events", k, "card">>, "Invalid enum value")>> ELSE <<>>)

RECURSIVE EventsIssues(_, _)
EventsIssues(events, k) ==
  IF k > Len(events) THEN <<>>
  ELSE EventIssues(events[k], k - 1) \o EventsIssues(events, k + 1)

\* the issues of MatchScriptSchema.safeParse(raw); success is no issue
SchemaIssues(raw) ==
  IF raw.kind # "script" THEN <<Issue(<<>>, "Expected object")>>
  ELSE TeamIssues("home", raw.match.home)
       \o TeamIssues("away", raw.match.away)
       \o EventsIssues(raw.events, 1)

\* parsed.data: the team codes upper-cased
ParsedData(raw) ==
  [raw EXCEPT !.match.home.code = ToUpperCase(@),
              !.match.away.code = ToUpperCase(@)]

\* the calls of addName, in order: each name with its context
NameEntries(match) ==
  LET team(t, side) ==
        <<[name |-> t.tender, context |-> <<t.code, "tender">>]>>
        \o [k \in 1..Len(t.field) |->
              [name |-> t.field[k], context |-> <<t.code, "field">>]]
  IN team(match.home, "home") \o team(match.away, "away")
     \o <<[name |-> match.officials.referee, context |-> <<"referee">>],
          [name |-> match.officials.pbp, context |-> <<"pbp">>],
          [name |-> match.officials.color, context |-> <<"color">>]>>

\* IdentityErrors reporting a duplicated name once, however often it occurs
IdentityErrorsOncePerName(match) ==
  LET entries == NameEntries(match)
      idx == [k \in 1..Len(entries) |-> [k |-> k, e |-> entries[k]]]
      Dup(x) == /\ \E j \in 1..(x.k - 1) : entries[j].name = x.e.name
                /\ Cardinality({j \in 1..(x.k - 1) :
                                  entries[j].name = x.e.name}) = 1
      dups == SelectSeq(idx, Dup)
  IN [k \in 1..Len(dups) |->
        [tag |-> "identity", name |-> dups[k].e.name,
         context |-> dups[k].e.context]]

\* an [identity] error for every call of addName whose name allNames has
IdentityErrors(match) ==
  LET entries == NameEntries(match)
      idx == [k \in 1..Len(entries) |-> [k |-> k, e |-> entries[k]]]
      Dup(x) == \E j \in 1..(x.k - 1) : entries[j].name = x.e.name
      dups == SelectSeq(idx, Dup)
  IN [k \in 1..Len(dups) |->
        [tag |-> "identity", name |-> dups[k].e.name,
         context |-> dups[k].e.context]]

FormationErrors(match) ==
     (IF Len(match.home.field) # 4
      THEN <<[tag |-> "formation", code |-> match.home.code,
              count |-> Len(match.home.field)]>> ELSE <<>>)
  \o (IF Len(match.away.field) # 4
      THEN <<[tag |-> "formation", code |-> match.away.code,
              count |-> Len(match.away.field)]>> ELSE <<>>)

\* the minute-order warnings of events k.. (k is 1-based, k >= 2)
RECURSIVE MinuteWarnings(_, _)
MinuteWarnings(events, k) ==
  IF k > Len(events) THEN <<>>
  ELSE (IF events[k].minute < events[k - 1].minute
        THEN <<[tag |-> "sequence", what |-> "minute", index |-> k - 1,
                minute |-> events[k].minute,
                previous |-> events[k - 1].minute]>>
        ELSE <<>>)
       \o MinuteWarnings(events, k + 1)

KnownNames(match) ==
  {NameEntries(match)[k].name : k \in 1..Len(NameEntries(match))}
  \cup {"referee", "pbp", "color"}

EvErr(k, what) == [tag |-> "events", index |-> k, what |-> what]

\* the pass check reporting a missing `to` only when `from` is there
PassErrorsElseIf(ev, k) ==
  IF ev.type = "pass"
  THEN IF ~Truthy(ev, "from") THEN <<EvErr(k, "pass missing 'from'")>>
       ELSE IF ~Truthy(ev, "to") THEN <<EvErr(k, "pass missing 'to'")>>
       ELSE <<>>
  ELSE <<>>

PassErrors(ev, k) ==
  IF ev.type = "pass"
  THEN (IF ~Truthy(ev, "from") THEN <<EvErr(k, "pass missing 'from'")>> ELSE <<>>)
    \o (IF ~Truthy(ev, "to") THEN <<EvErr(k, "pass missing 'to'")>> ELSE <<>>)
  ELSE <<>>

\* the loop body checking the actor only, not `from` and `to`
EventErrorsActorOnly(ev, k, knownNames) ==
  LET unknown(f, what) ==
        IF Truthy(ev, f) /\ ev[f] \notin knownNames
        THEN <<EvErr(k, what) @@ [name |-> ev[f]]>> ELSE <<>>
  IN unknown("actor", "unknown actor")
     \o (IF ev.type = "speak" /\ ~Truthy(ev, "text")
         THEN <<EvErr(k, "speak event has no text")>> ELSE <<>>)
     \o (IF ev.type = "announce" /\ ~Truthy(ev, "text")
         THEN <<EvErr(k, "announce event has no text")>> ELSE <<>>)
     \o PassErrors(ev, k)

\* the body of the loop over events, for event k (0-based)
EventErrors(ev, k, knownNames) ==
  LET unknown(f, what) ==
        IF Truthy(ev, f) /\ ev[f] \notin knownNames
        THEN <<EvErr(k, what) @@ [name |-> ev[f]]>> ELSE <<>>
  IN unknown("actor", "unknown actor")
     \o unknown("from", "unknown 'from'")
     \o unknown("to", "unknown 'to'")
     \o (IF ev.type = "speak" /\ ~Truthy(ev, "text")
         THEN <<EvErr(k, "speak event has no text")>> ELSE <<>>)
     \o (IF ev.type = "announce" /\ ~Truthy(ev, "text")
         THEN <<EvErr(k, "announce event has no text")>> ELSE <<>>)
     \o PassErrors(ev, k)

RECURSIVE EventsErrors(_, _, _)
EventsErrors(events, k, knownNames) ==
  IF k > Len(events) THEN <<>>
  ELSE EventErrors(events[k], k - 1, knownNames)
       \o EventsErrors(events, k + 1, knownNames)

BookendWarnings(events) ==
     (IF Len(events) > 0 /\ events[1].type # "whistle"
      THEN <<[tag |-> "sequence", what |-> "no whistle"]>> ELSE <<>>)
  \o (IF Len(events) > 0 /\ events[Len(events)].type # "fulltime"
      THEN <<[tag |-> "sequence", what |-> "no fulltime"]>> ELSE <<>>)

\* the result record of lines 117-121, failing on warnings too
ResultStrict(errors, warnings) ==
  [valid |-> Len(errors) = 0 /\ Len(warnings) = 0,
   errors |-> errors, warnings |-> warnings]

Result(errors, warnings) ==
  [valid |-> Len(errors) = 0, errors |-> errors, warnings |-> warnings]

\* validateScript without the early return of line 24: the semantic rules
\* run on a document the schema rejected
validateScriptNoReturn(raw) ==
  IF raw.kind # "script"
  THEN [valid |-> FALSE, errors |-> SchemaIssues(raw), warnings |-> <<>>]
  ELSE LET script == ParsedData(raw)
           match == script.match
           events == script.events
           errors ==
             SchemaIssues(raw)
             \o IdentityErrors(match)
             \o FormationErrors(match)
             \o (IF Len(events) = 0
                 THEN <<[tag |-> "events", what |-> "Match has no events"]>>
                 ELSE <<>>)
             \o EventsErrors(events, 1, KnownNames(match))
           warnings == MinuteWarnings(events, 2) \o BookendWarnings(events)
       IN Result(errors, warnings)

validateScript(raw) ==
  IF SchemaIssues(raw) # <<>>
  THEN [valid |-> FALSE, errors |-> SchemaIssues(raw), warnings |-> <<>>]
  ELSE LET script == ParsedData(raw)
           match == script.match
           events == script.events
           errors ==
             IdentityErrors(match)
             \o FormationErrors(match)
             \o (IF Len(events) = 0
                 THEN <<[tag |-> "events", what |-> "Match has no events"]>>
                 ELSE <<>>)
             \o EventsErrors(events, 1, KnownNames(match))
           warnings == MinuteWarnings(events, 2) \o BookendWarnings(events)
       IN Result(errors, warnings)

----------------------------------------------------------------------------
(* The events the engine specification draws its script from.  A field the *)
(* engine never reads for an event kind is left out of that kind's events. *)

\* names an event may refer to: players of both sides, and a name that is
\* no player record (an official or an unknown name)
Stranger == "referee"
ActorPool == {HomeTender, "HD", "HF", "AF", Stranger}

EngineMinutes == {0, 46}
TargetPositions == {<<10, 5>>}
WhistleReasons == {"kickoff", "halftime", "fulltime", "stoppage", "restart"}

Timed(shapes) ==
  {sh @@ [minute |-> m] : sh \in shapes, m \in EngineMinutes}

WithActor(t) ==
  {[type |-> t]} \cup {[type |-> t, actor |-> a] : a \in ActorPool}

EventShapes ==
       {[type |-> "whistle"]}
  \cup {[type |-> "whistle", reason |-> r] : r \in WhistleReasons \cup {"foul"}}
  \cup {[type |-> t] : t \in {"halftime", "fulltime", "dead_ball", "speak",
                              "announce", "comment", "penalty", "pause"}}
  \cup {[type |-> "pass"]}
  \cup {[type |-> "pass", to |-> a] : a \in ActorPool}
  \cup WithActor("intercept") \cup WithActor("hold")
  \cup WithActor("exit") \cup WithActor("goal")
  \cup WithActor("move")
  \cup {[type |-> "move", actor |-> a, position |-> p] :
          a \in ActorPool, p \in TargetPositions}
  \cup WithActor("card")
  \cup {[type |-> "card", actor |-> a, card |-> c] :
          a \in ActorPool, c \in {"yellow", "red"}}

\* beside those: an event with added time, references by empty string, and
\* passes with a `from` that need not hold the ball
EngineEvents ==
  Timed(EventShapes)
  \cup {[type |-> "comment", minute |-> 90, added |-> 2],
        [type |-> "pass", minute |-> 46, to |-> ""],
        [type |-> "pass", minute |-> 0, from |-> "AF", to |-> "HD"],
        [type |-> "pass", minute |-> 0, from |-> Stranger, to |-> "HF"],
        [type |-> "goal", minute |-> 46, actor |-> ""]}

----------------------------------------------------------------------------
(* MatchEngine.run: one loop iteration applies one event *)

\* the loop body with the transition before the clock advance
LoopBodyApplyFirst(s, idx, ev) ==
  LET s0 == [s EXCEPT !.eventIndex = idx]
      s1 == applyEvent(s0, ev)
  IN [s1 EXCEPT !.clock =
        advanceClock(s1.clock, ev.minute, OptNum(ev, "added"))]

\* lines 119-130: the cursor, the clock advance, then the transition
LoopBody(s, idx, ev) ==
  LET s0 == [s EXCEPT !.eventIndex = idx]
      s1 == [s0 EXCEPT !.clock =
               advanceClock(s0.clock, ev.minute, OptNum(ev, "added"))]
  IN applyEvent(s1, ev)

RunEvent(ev) ==
  /\ i < state.totalEvents
  /\ state' = LoopBody(state, i, ev)
  /\ event' = ev
  /\ i' = i + 1
  /\ UNCHANGED <<clockVars, validatorVars, runVars>>

\* the variables of a specification that does not use them
NoClock == [minute |-> 0, added |-> 0, period |-> "pre"]
NoDoc == [kind |-> "<none>"]
NoResult == [kind |-> "<none>"]

ClockIdle == clk = NoClock /\ clkArg = <<0>> /\ clkCalls = 0
ValidatorIdle == doc = NoDoc /\ result = NoResult
EngineIdle == state = initializeState(0) /\ i = 0 /\ event = NoEvent
NoRun == [pc |-> "idle", d |-> 0, n |-> 0, paceMs |-> 0, delay |-> 0]
RunIdle == thisEvents = <<>> /\ load = "none" /\ run = NoRun /\ log = <<>>

\* The engine, constructed from a script of any length up to MaxEvents.
Init ==
  /\ \E n \in 0..MaxEvents : state = initializeState(n)
  /\ i = 0
  /\ event = NoEvent
  /\ ClockIdle
  /\ ValidatorIdle
  /\ RunIdle

Next == \E ev \in EngineEvents : RunEvent(ev)

Spec == Init /\ [][Next]_vars

----------------------------------------------------------------------------
(* The end-to-end scenario: the script                                     *)
(*   whistle(kickoff), pass(HT -> HD), goal(HF), whistle(fulltime)         *)
(* with every minute 0..90 and added-time absent or present on each event. *)

ScenarioShapes ==
  <<[type |-> "whistle", reason |-> "kickoff"],
    [type |-> "pass", from |-> HomeTender, to |-> HomeField[1]],
    [type |-> "goal", actor |-> HomeField[4]],
    [type |-> "whistle", reason |-> "fulltime"]>>

ScenarioEvents(k) ==
  LET sh == ScenarioShapes[k]
  IN {sh @@ [minute |-> m] : m \in 0..90}
     \cup {sh @@ [minute |-> m, added |-> 2] : m \in {45, 90}}

InitScenario ==
  /\ state = initializeState(Len(ScenarioShapes))
  /\ i = 0
  /\ event = NoEvent
  /\ ClockIdle
  /\ ValidatorIdle
  /\ RunIdle

NextScenario ==
  /\ i < Len(ScenarioShapes)
  /\ \E ev \in ScenarioEvents(i + 1) : RunEvent(ev)

SpecScenario == InitScenario /\ [][NextScenario]_vars

----------------------------------------------------------------------------
(* Longer replays over the events that move the ball, give it, take it and  *)
(* send a player off, all at minute 0.                                      *)

DeepEvents ==
  {sh @@ [minute |-> 0] :
     sh \in {[type |-> "whistle", reason |-> "kickoff"],
             [type |-> "whistle", reason |-> "stoppage"],
             [type |-> "dead_ball"],
             [type |-> "fulltime"],
             [type |-> "pass", to |-> "HD"],
             [type |-> "pass", to |-> Stranger],
             [type |-> "intercept", actor |-> "AF"],
             [type |-> "goal", actor |-> "HF"],
             [type |-> "exit", actor |-> HomeTender],
             [type |-> "exit", actor |-> "HD"]}}

InitDeep ==
  /\ \E n \in 0..MaxDeepEvents : state = initializeState(n)
  /\ i = 0
  /\ event = NoEvent
  /\ ClockIdle
  /\ ValidatorIdle
  /\ RunIdle

NextDeep == \E ev \in DeepEvents : RunEvent(ev)

SpecDeep == InitDeep /\ [][NextDeep]_vars

----------------------------------------------------------------------------
(* Replays of a whole script kept beside the engine, over goals by home     *)
(* players, away players, strangers and nobody, and the events between.     *)

ScoreEvents ==
  {sh @@ [minute |-> 46] :
     sh \in {[type |-> "goal", actor |-> "HF"],
             [type |-> "goal", actor |-> HomeTender],
             [type |-> "goal", actor |-> "AF"],
             [type |-> "goal", actor |-> Stranger],
             [type |-> "goal", actor |-> ""],
             [type |-> "goal"],
             [type |-> "exit", actor |-> "HF"],
             [type |-> "pass", from |-> "AF", to |-> "HF"],
             [type |-> "card", actor |-> "AF", card |-> "red"]}}

InitScore ==
  /\ \E n \in 0..MaxScoreEvents : \E es \in [1..n -> ScoreEvents] :
        /\ thisEvents = es
        /\ state = initializeState(Len(es))
  /\ i = 0
  /\ event = NoEvent
  /\ ClockIdle
  /\ ValidatorIdle
  /\ load = "none"
  /\ run = NoRun
  /\ log = <<>>

NextScore == i < Len(thisEvents) /\ RunEvent(thisEvents[i + 1])

SpecScore == InitScore /\ [][NextScore]_vars

----------------------------------------------------------------------------
(* Claims about the engine *)

HoldersOf(s) == {n \in DOMAIN s.players : s.players[n].hasBall}
IsKickoff(ev) == ev.type = "whistle" /\ Field(ev, "reason") = "kickoff"
GoalBy(ev, side) == ev.type = "goal" /\ Truthy(ev, "actor") /\ ev.actor \in side
BallDeadNoHolder(s) == s.ball.dead /\ s.ball.holder = Null

\* C1: after every event of every replay, at most one player record has its
\* possession flag (hasBall) set.
C1_PossessionExclusive == Cardinality(HoldersOf(state)) <= 1

\* C2: once the four events of the scenario script have been replayed, the
\* score is 1-0, the period is fulltime, the ball is dead and has no holder.
C2_ScenarioFinal ==
  i = Len(ScenarioShapes) =>
    /\ state.score = [home |-> 1, away |-> 0]
    /\ state.clock.period = "fulltime"
    /\ BallDeadNoHolder(state)

C2_Witness ==
  /\ i = Len(ScenarioShapes)
  /\ event = [type |-> "whistle", reason |-> "fulltime", minute |-> 90, added |-> 2]
  /\ state.score.home = 1
  /\ state.clock = [minute |-> 90, added |-> 2, period |-> "fulltime"]

\* C3: in every state reached by applying a kickoff whistle, the ball is
\* live and ball.holder is the home tender's name.
C3_KickoffGivesHomeTender ==
  IsKickoff(event) => ~state.ball.dead /\ state.ball.holder = HomeTender

\* the kickoff follows the home tender's exit and a dead ball
C3_Witness ==
  /\ IsKickoff(event)
  /\ ~state.players[HomeTender].onPitch
  /\ state.ball.holder = HomeTender
  /\ i = MaxEvents

\* C4: a goal whose actor is a home player adds exactly 1 to score.home and
\* leaves score.away alone, a goal whose actor is an away player the
\* converse; either way the ball is then dead with no holder.
C4_GoalScores ==
  [][/\ GoalBy(event', HomeNames) =>
          /\ state'.score = [state.score EXCEPT !.home = @ + 1]
          /\ BallDeadNoHolder(state')
     /\ GoalBy(event', AwayNames) =>
          /\ state'.score = [state.score EXCEPT !.away = @ + 1]
          /\ BallDeadNoHolder(state')]_vars

\* a second home goal, scored while the ball was held
C4_Witness ==
  /\ GoalBy(event, HomeNames)
  /\ state.score = [home |-> 2, away |-> 0]
  /\ HoldersOf(state) # {}
  /\ BallDeadNoHolder(state)

\* C5: an exit event whose actor is the current ball holder leaves the ball
\* dead, ball.holder none and the actor off the pitch.
C5_ExitOfHolder ==
  [][(/\ state.ball.holder # Null
      /\ event'.type = "exit"
      /\ Truthy(event', "actor")
      /\ event'.actor = state.ball.holder) =>
        /\ BallDeadNoHolder(state')
        /\ ~state'.players[event'.actor].onPitch]_vars

\* the event names, in the field its kind reads, somebody who is no player
NamesNoPlayer(ev) ==
  \/ ev.type = "pass" /\ Has(ev, "to") /\ ev.to \notin PlayerNames
  \/ /\ ev.type \in {"intercept", "hold", "move", "exit", "card", "goal"}
     /\ Has(ev, "actor") /\ ev.actor \notin PlayerNames

\* C18: an event that names no player in the field its kind reads leaves
\* every player record, the ball and the score as they were.
C18_UnknownNameNoOp ==
  [][NamesNoPlayer(event') =>
       /\ state'.players = state.players
       /\ state'.ball = state.ball
       /\ state'.score = state.score]_vars

DeadAtCenter == [holder |-> Null, position |-> Center, dead |-> TRUE]
CentersBall(ev) ==
  \/ ev.type \in {"dead_ball", "halftime"}
  \/ /\ ev.type = "whistle" /\ Has(ev, "reason")
     /\ ev.reason \in {"halftime", "fulltime"}

\* C21: a dead_ball event, a halftime event and a whistle with reason
\* halftime or fulltime leave the ball dead, without holder, at the center;
\* a fulltime event leaves it dead, without holder, where it was.
C21_DeadBallTransitions ==
  [][/\ CentersBall(event') => state'.ball = DeadAtCenter
     /\ event'.type = "fulltime" =>
          state'.ball = [holder |-> Null, position |-> state.ball.position,
                         dead |-> TRUE]]_vars

\* a fulltime event that found the ball away from the center
C21_Witness ==
  /\ event.type = "fulltime"
  /\ state.ball.dead /\ state.ball.holder = Null
  /\ state.ball.position # Center

\* C22: after a goal event, whatever its actor field, the ball is dead,
\* without holder, at the center.
C22_GoalDeadBall == event.type = "goal" => state.ball = DeadAtCenter

Flags(s) == [n \in DOMAIN s.players |-> s.players[n].hasBall]
IsWhistle(ev, reason) ==
  ev.type = "whistle" /\ Has(ev, "reason") /\ ev.reason = reason

\* C23: a stoppage whistle makes the ball dead, a restart whistle makes it
\* live, and either leaves the holder, the ball's position, every player's
\* possession flag and the score as they were.
C23_StoppageRestartFrame ==
  [][/\ IsWhistle(event', "stoppage") =>
          /\ state'.ball = [state.ball EXCEPT !.dead = TRUE]
          /\ Flags(state') = Flags(state)
          /\ state'.score = state.score
     /\ IsWhistle(event', "restart") =>
          /\ state'.ball = [state.ball EXCEPT !.dead = FALSE]
          /\ Flags(state') = Flags(state)
          /\ state'.score = state.score]_vars

\* a stoppage that leaves a dead ball with its holder
C23_Witness ==
  /\ IsWhistle(event, "stoppage")
  /\ state.ball.dead
  /\ state.ball.holder = HomeField[1]
  /\ state.players[HomeField[1]].hasBall

\* the event hands the ball to a player record
Transfers(ev) ==
  \/ ev.type = "pass" /\ Has(ev, "to") /\ ev.to \in PlayerNames
  \/ /\ ev.type \in {"intercept", "hold"}
     /\ Has(ev, "actor") /\ ev.actor \in PlayerNames
Receiver(ev) == IF ev.type = "pass" THEN ev.to ELSE ev.actor

\* C24: a pass to a player, and an intercept or hold by a player, make that
\* player the holder with the possession flag set, put the ball live at
\* that player's position, and take the flag from the holder before, when
\* it is another player; the pass's `from` has no part in it.
C24_PossessionTransfer ==
  [][Transfers(event') =>
       LET r == Receiver(event')
       IN /\ state'.ball = [holder   |-> r,
                            position |-> state'.players[r].position,
                            dead     |-> FALSE]
          /\ state'.players[r].hasBall
          /\ (state.ball.holder \in PlayerNames \ {r}) =>
               ~state'.players[state.ball.holder].hasBall]_vars

\* a pass "from" a forward who never had the ball gives it to the defender,
\* at the position the defender has moved to
C24_Witness ==
  /\ event = [type |-> "pass", minute |-> 0, from |-> "AF", to |-> "HD"]
  /\ state.ball = [holder |-> "HD", position |-> <<10, 5>>, dead |-> FALSE]
  /\ state.players["HD"].hasBall
  /\ ~state.players[HomeTender].hasBall
  /\ ~state.players["AF"].hasBall

NoOpKind(ev) ==
  \/ ev.type \in {"speak", "announce", "comment", "penalty", "pause"}
  \/ /\ ev.type = "whistle"
     /\ (Has(ev, "reason") => ev.reason \notin WhistleReasons)

\* C26: speak, announce, comment, penalty and pause events, and whistles
\* with no reason or a reason outside the five, leave every player record,
\* the ball and the score as they were and move the clock and the cursor.
C26_NoOpKinds ==
  [][NoOpKind(event') =>
       /\ state'.players = state.players
       /\ state'.ball = state.ball
       /\ state'.score = state.score
       /\ state'.clock.minute = event'.minute
       /\ state'.eventIndex = i]_vars

\* a penalty at minute 46 with the ball live in the tender's hands
C26_Witness ==
  /\ event = [type |-> "penalty", minute |-> 46]
  /\ state.ball = [holder |-> HomeTender,
                   position |-> state.players[HomeTender].position,
                   dead |-> FALSE]
  /\ state.clock.minute = 46
  /\ state.eventIndex = 1

\* C25: an exit event naming a player whom ball.holder does not name marks
\* that player off the pitch and leaves the ball and every other player's
\* record as they were.
C25_ExitOfNonHolder ==
  [][(/\ event'.type = "exit"
      /\ Has(event', "actor")
      /\ event'.actor \in PlayerNames
      /\ state.ball.holder # event'.actor) =>
        /\ ~state'.players[event'.actor].onPitch
        /\ state'.ball = state.ball
        /\ \A n \in PlayerNames \ {event'.actor} :
             state'.players[n] = state.players[n]]_vars

IsPrefix(a, b) == Len(a) <= Len(b) /\ SubSeq(b, 1, Len(a)) = a
CardsPlayer(ev) ==
  /\ ev.type = "card" /\ Has(ev, "card")
  /\ Has(ev, "actor") /\ ev.actor \in PlayerNames

\* C29: a player's on-pitch flag changes only from true to false and only
\* with an exit event naming that player; a card event naming a player
\* appends its color to that player's card list and changes nothing else of
\* the players, the ball or the score; no card list ever loses a card.
C29_CardsNeverRemove ==
  [][/\ \A n \in PlayerNames :
          state'.players[n].onPitch # state.players[n].onPitch =>
            /\ state.players[n].onPitch /\ ~state'.players[n].onPitch
            /\ event'.type = "exit" /\ Has(event', "actor")
            /\ event'.actor = n
     /\ \A n \in PlayerNames :
          IsPrefix(state.players[n].cards, state'.players[n].cards)
     /\ CardsPlayer(event') =>
          /\ state'.players =
               [state.players EXCEPT
                  ![event'.actor].cards = Append(@, event'.card)]
          /\ state'.ball = state.ball
          /\ state'.score = state.score]_vars

\* a red card after a yellow one, the player still on the pitch
C29_Witness ==
  /\ event.type = "card" /\ Field(event, "card") = "red"
  /\ Field(event, "actor") = "HD"
  /\ state.players["HD"].cards = <<"yellow", "red">>
  /\ state.players["HD"].onPitch

\* C30: after every event, a player has the possession flag exactly when
\* ball.holder is that player's name.
C30_HolderAndFlagsAgree ==
  \A n \in PlayerNames : state.players[n].hasBall <=> state.ball.holder = n

PeriodRank(period) ==
  CASE period = "pre"         -> 0
    [] period = "first_half"  -> 1
    [] period = "halftime"    -> 2
    [] period = "second_half" -> 3
    [] period = "fulltime"    -> 4

\* C31: from one post-event state to the next the period never moves back
\* in the order pre, first_half, halftime, second_half, fulltime.
C31_PeriodMonotone ==
  [][PeriodRank(state'.clock.period) >= PeriodRank(state.clock.period)]_vars

\* C32: whenever ball.holder names a player, that player is on the pitch.
C32_HolderOnPitch ==
  state.ball.holder \in PlayerNames => state.players[state.ball.holder].onPitch

GoalsBy(side, k) ==
  Cardinality({j \in 1..k : GoalBy(thisEvents[j], side)})

\* C33: after the first i events of a script, score.home is the number of
\* goal events among them whose actor is a home player and score.away the
\* number whose actor is an away player; from one state to the next neither
\* counter decreases, the total rises by at most 1, and it changes only on
\* a goal event.
C33_ScoreAccounting ==
  /\ [](/\ state.score.home = GoalsBy(HomeNames, i)
        /\ state.score.away = GoalsBy(AwayNames, i))
  /\ [][/\ state'.score.home >= state.score.home
        /\ state'.score.away >= state.score.away
        /\ state'.score.home + state'.score.away
             <= state.score.home + state.score.away + 1
        /\ state'.score # state.score => event'.type = "goal"]_vars

\* a home goal, an away goal and a goal by a stranger replayed: 1-1
C33_Witness ==
  /\ i = 3
  /\ GoalsBy(HomeNames, i) = 1
  /\ GoalsBy(AwayNames, i) = 1
  /\ \E j \in 1..i : thisEvents[j].type = "goal" /\ ~GoalBy(thisEvents[j], PlayerNames)
  /\ state.score = [home |-> 1, away |-> 1]

----------------------------------------------------------------------------
(* The documents the validator specification draws from.                   *)

\* the thirteen participant slots in addName order, with distinct names
BaseNames ==
  <<HomeTender>> \o HomeField \o <<AwayTender>> \o AwayField
  \o <<"Ref", "Pbp", "Col">>
Slots == 1..Len(BaseNames)
\* names a slot may be renamed to: a tender, a field player, an official
DupTargets == {BaseNames[1], BaseNames[2], BaseNames[11]}

Renamings ==
  UNION {[S -> DupTargets] :
           S \in {T \in SUBSET Slots : Cardinality(T) <= MaxDups}}
NamesOf(f) == [k \in Slots |-> IF k \in DOMAIN f THEN f[k] ELSE BaseNames[k]]

FieldLengths == {3, 4, 5}
\* the four field names of a side, cut to three or extended by a fifth
FieldOf(four, extra, len) ==
  IF len = 3 THEN SubSeq(four, 1, 3)
  ELSE IF len = 5 THEN Append(four, extra)
  ELSE four

HomeCodes ==
  {<<"H", "O", "M">>, <<"h", "o", "m">>, <<"H", "O">>, <<"H", "O", "M", "E">>}
AwayCode == <<"A", "W", "Y">>

MakeDoc(names, hcode, hlen, alen, events) ==
  [kind   |-> "script",
   match  |-> [home |-> [code   |-> hcode,
                         tender |-> names[1],
                         field  |-> FieldOf(SubSeq(names, 2, 5), "H6", hlen)],
               away |-> [code   |-> AwayCode,
                         tender |-> names[6],
                         field  |-> FieldOf(SubSeq(names, 7, 10), "A6", alen)],
               officials |-> [referee |-> names[11], pbp |-> names[12],
                              color |-> names[13]]],
   events |-> events]

Ghost == "Ghost"
KickoffEvent == [type |-> "whistle", minute |-> 0, reason |-> "kickoff",
                 actor |-> "referee"]
FulltimeEvent == [type |-> "fulltime", minute |-> 90]

PassEvents ==
  LET froms == {[x \in {} |-> 0]} \cup {[from |-> n] : n \in {"", HomeTender, Ghost}}
      tos   == {[x \in {} |-> 0]} \cup {[to |-> n] : n \in {"", HomeField[1], Ghost}}
  IN {[type |-> "pass", minute |-> 10] @@ f @@ g : f \in froms, g \in tos}

DocEvents ==
  PassEvents
  \cup {KickoffEvent, FulltimeEvent}
  \cup {[type |-> "speak", minute |-> 5, actor |-> HomeField[4]] @@ x :
          x \in {[y \in {} |-> 0], [text |-> ""], [text |-> "Why?"]}}
  \cup {[type |-> "announce", minute |-> 5, actor |-> "pbp"],
        [type |-> "announce", minute |-> 5, actor |-> "pbp", text |-> "Go"],
        [type |-> "goal", minute |-> 60, actor |-> Ghost],
        [type |-> "goal", minute |-> 60, actor |-> "Col"],
        [type |-> "goal", minute |-> 60, actor |-> ""],
        [type |-> "comment", minute |-> 91],
        [type |-> "offside", minute |-> 20]}

GoodEvents == <<KickoffEvent, FulltimeEvent>>

\* every renaming and formation, with a clean event list
NameDoc(f, hl, al) == MakeDoc(NamesOf(f), <<"H", "O", "M">>, hl, al, GoodEvents)
\* every team code and formation, with distinct names
CodeDoc(c, hl, al) == MakeDoc(BaseNames, c, hl, al, GoodEvents)
\* every event list, with distinct names or one duplicate
EventDoc(names, evs) == MakeDoc(names, <<"h", "o", "m">>, 4, 4, evs)
\* a YAML document that is no mapping
ScalarDoc == [kind |-> "scalar"]

Validate ==
  /\ result = NoResult
  /\ result' = validateScript(doc)
  /\ UNCHANGED <<doc, engineVars, clockVars, runVars>>

InitValidate ==
  /\ \/ \E f \in Renamings, hl \in FieldLengths, al \in FieldLengths :
          doc = NameDoc(f, hl, al)
     \/ \E c \in HomeCodes, hl \in FieldLengths, al \in FieldLengths :
          doc = CodeDoc(c, hl, al)
     \/ \E names \in {BaseNames, NamesOf(12 :> BaseNames[11])},
           n \in 0..MaxDocEvents :
          \E evs \in [1..n -> DocEvents] : doc = EventDoc(names, evs)
     \/ doc = ScalarDoc
  /\ result = NoResult
  /\ EngineIdle
  /\ ClockIdle
  /\ RunIdle

NextValidate == Validate

SpecValidate == InitValidate /\ [][NextValidate]_vars

----------------------------------------------------------------------------
(* MatchEngine.run with its dispatchers.  run() is one thread of control    *)
(* that is suspended at every await: run.pc names the loop it is in, run.d  *)
(* the dispatcher the loop is at, and a call that was made and has not      *)
(* settled is the last entry of log, with outcome "pending".  A dispatcher  *)
(* is outside the engine: each of its calls returns or throws.              *)

\* event.text.split(/\s+/).length for the texts the scripts use
Words(text) == IF text = "What a goal" THEN 3 ELSE 1
Max(a, b) == IF a >= b THEN a ELSE b

\* base is even in every run drawn, so base * 0.5 is base \div 2
eventDelay(ev, base) ==
  CASE ev.type = "pause" ->
         IF Has(ev, "pause_ms") THEN ev.pause_ms ELSE base * 2
    [] ev.type \in {"speak", "announce", "comment"} ->
         IF Truthy(ev, "text") THEN Max(base, Words(ev.text) * 200) ELSE base
    [] ev.type = "goal" -> base * 3
    [] ev.type = "halftime" -> base * 2
    [] ev.type = "whistle" -> base \div 2
    [] OTHER -> base

Pending == log # <<>> /\ log[Len(log)].outcome = "pending"
CallEntry(call, ev) ==
  [call |-> call, d |-> run.d, index |-> i, event |-> ev, seen |-> state,
   outcome |-> "pending"]
Settle(outcome) == [log EXCEPT ![Len(log)].outcome = outcome]

\* line 114: the next dispatcher's onMatchStart is called
NotifyStart ==
  /\ run.pc = "start" /\ ~Pending /\ run.d <= run.n
  /\ log' = Append(log, CallEntry("onMatchStart", NoEvent))
  /\ UNCHANGED <<engineVars, clockVars, validatorVars, thisEvents, load, run>>

\* the loop over the dispatchers left after the first of them
StartDoneAfterFirst ==
  /\ run.pc = "start" /\ ~Pending /\ run.d > 1
  /\ run' = [run EXCEPT !.pc = "loop"]
  /\ UNCHANGED <<engineVars, clockVars, validatorVars, thisEvents, load, log>>

\* line 113: the loop over the dispatchers is over
StartDone ==
  /\ run.pc = "start" /\ ~Pending /\ run.d > run.n
  /\ run' = [run EXCEPT !.pc = "loop"]
  /\ UNCHANGED <<engineVars, clockVars, validatorVars, thisEvents, load, log>>

\* the loop taking the next event and moving the cursor, applying nothing
LoopNextNoApply ==
  /\ run.pc = "loop" /\ i < Len(thisEvents)
  /\ state' = [state EXCEPT !.eventIndex = i]
  /\ event' = thisEvents[i + 1]
  /\ i' = i + 1
  /\ run' = [run EXCEPT !.pc = "dispatch", !.d = 1]
  /\ UNCHANGED <<clockVars, validatorVars, thisEvents, load, log>>

\* lines 118-130: the next event is taken, the clock advanced, the event
\* applied
LoopNext ==
  /\ run.pc = "loop" /\ i < Len(thisEvents)
  /\ state' = LoopBody(state, i, thisEvents[i + 1])
  /\ event' = thisEvents[i + 1]
  /\ i' = i + 1
  /\ run' = [run EXCEPT !.pc = "dispatch", !.d = 1]
  /\ UNCHANGED <<clockVars, validatorVars, thisEvents, load, log>>

\* the loop left one index too late
LoopExitOffByOne ==
  /\ run.pc = "loop" /\ i > Len(thisEvents)
  /\ run' = [run EXCEPT !.pc = "end", !.d = 1]
  /\ UNCHANGED <<engineVars, clockVars, validatorVars, thisEvents, load, log>>

\* line 118: no event is left
LoopExit ==
  /\ run.pc = "loop" /\ i >= Len(thisEvents)
  /\ run' = [run EXCEPT !.pc = "end", !.d = 1]
  /\ UNCHANGED <<engineVars, clockVars, validatorVars, thisEvents, load, log>>

\* onEvent called on the next dispatcher without awaiting the one before
NotifyEventFanOut ==
  /\ run.pc = "dispatch" /\ run.d <= run.n
  /\ log' = Append(log, CallEntry("onEvent", event))
  /\ run' = [run EXCEPT !.d = run.d + 1]
  /\ UNCHANGED <<engineVars, clockVars, validatorVars, thisEvents, load>>

\* line 134: the next dispatcher's onEvent is called
NotifyEvent ==
  /\ run.pc = "dispatch" /\ ~Pending /\ run.d <= run.n
  /\ log' = Append(log, CallEntry("onEvent", event))
  /\ UNCHANGED <<engineVars, clockVars, validatorVars, thisEvents, load, run>>

\* the pacing delay taken after every event, the last one too
SleepAfterEvery ==
  /\ run.pc = "dispatch" /\ ~Pending /\ run.d > run.n
  /\ run.paceMs > 0
  /\ run' = [run EXCEPT !.pc = "pace", !.delay = eventDelay(event, run.paceMs)]
  /\ UNCHANGED <<engineVars, clockVars, validatorVars, thisEvents, load, log>>

\* lines 138-140: every dispatcher has the event and it is not the last one
Sleep ==
  /\ run.pc = "dispatch" /\ ~Pending /\ run.d > run.n
  /\ run.paceMs > 0 /\ i - 1 < Len(thisEvents) - 1
  /\ run' = [run EXCEPT !.pc = "pace", !.delay = eventDelay(event, run.paceMs)]
  /\ UNCHANGED <<engineVars, clockVars, validatorVars, thisEvents, load, log>>

\* line 138: no pacing, or the last event
NoSleep ==
  /\ run.pc = "dispatch" /\ ~Pending /\ run.d > run.n
  /\ ~(run.paceMs > 0 /\ i - 1 < Len(thisEvents) - 1)
  /\ run' = [run EXCEPT !.pc = "loop"]
  /\ UNCHANGED <<engineVars, clockVars, validatorVars, thisEvents, load, log>>

\* line 320: the timer fires
Wake ==
  /\ run.pc = "pace"
  /\ run' = [run EXCEPT !.pc = "loop", !.delay = 0]
  /\ UNCHANGED <<engineVars, clockVars, validatorVars, thisEvents, load, log>>

\* line 146: the next dispatcher's onMatchEnd is called
NotifyEnd ==
  /\ run.pc = "end" /\ ~Pending /\ run.d <= run.n
  /\ log' = Append(log, CallEntry("onMatchEnd", NoEvent))
  /\ UNCHANGED <<engineVars, clockVars, validatorVars, thisEvents, load, run>>

\* line 148: run() returns
EndDone ==
  /\ run.pc = "end" /\ ~Pending /\ run.d > run.n
  /\ run' = [run EXCEPT !.pc = "done"]
  /\ UNCHANGED <<engineVars, clockVars, validatorVars, thisEvents, load, log>>

\* a throw that is caught and the loop carried on with the next dispatcher
ThrowSwallowed ==
  /\ Pending
  /\ log' = Settle("thrown")
  /\ run' = [run EXCEPT !.d = run.d + 1]
  /\ UNCHANGED <<engineVars, clockVars, validatorVars, thisEvents, load>>

\* the awaited call returns: the loop goes on to the next dispatcher
Return ==
  /\ Pending
  /\ log' = Settle("ok")
  /\ run' = [run EXCEPT !.d = run.d + 1]
  /\ UNCHANGED <<engineVars, clockVars, validatorVars, thisEvents, load>>

\* the awaited call throws: no handler in run(), its promise is rejected
Throw ==
  /\ Pending
  /\ log' = Settle("thrown")
  /\ run' = [run EXCEPT !.pc = "failed"]
  /\ UNCHANGED <<engineVars, clockVars, validatorVars, thisEvents, load>>

NextRun ==
  \/ NotifyStart \/ StartDone
  \/ LoopNext \/ LoopExit
  \/ NotifyEvent \/ Sleep \/ NoSleep \/ Wake
  \/ NotifyEnd \/ EndDone
  \/ Return \/ Throw

\* the events of the scripts run with dispatchers: a validated script's
RunPool ==
  {[type |-> "whistle", minute |-> 0, reason |-> "kickoff",
    actor |-> "referee"],
   [type |-> "pass", minute |-> 10, from |-> HomeTender, to |-> HomeField[1]],
   [type |-> "goal", minute |-> 46, actor |-> HomeField[4]],
   [type |-> "halftime", minute |-> 45, added |-> 2],
   [type |-> "whistle", minute |-> 30, reason |-> "halftime"],
   [type |-> "whistle", minute |-> 90, added |-> 3, reason |-> "fulltime"],
   [type |-> "fulltime", minute |-> 20],
   [type |-> "speak", minute |-> 50, actor |-> HomeField[4],
    text |-> "What a goal"],
   [type |-> "pause", minute |-> 60, pause_ms |-> 250]}
PaceChoices == {0, 100}

InitRun ==
  /\ \E n \in 0..MaxRunEvents : thisEvents \in [1..n -> RunPool]
  /\ state = initializeState(Len(thisEvents))
  /\ i = 0
  /\ event = NoEvent
  /\ \E n \in 0..MaxDispatchers, p \in PaceChoices :
       run = [pc |-> "start", d |-> 1, n |-> n, paceMs |-> p, delay |-> 0]
  /\ log = <<>>
  /\ load = "none"
  /\ ClockIdle
  /\ ValidatorIdle

SpecRun == InitRun /\ [][NextRun]_vars

\* The run with collaborators that never fail and always return, and a
\* timer that always fires: run() is one thread that goes on whenever it is
\* not suspended.  The scripts hold events the validator would reject,
\* which the engine does not check: a name nobody has, a field left out.
CompletePool ==
  {[type |-> "whistle", minute |-> 0, reason |-> "kickoff",
    actor |-> "referee"],
   [type |-> "pass", minute |-> 10, from |-> HomeTender, to |-> HomeField[1]],
   [type |-> "speak", minute |-> 50, actor |-> HomeField[4],
    text |-> "What a goal"],
   [type |-> "whistle", minute |-> 90, added |-> 3, reason |-> "fulltime"],
   [type |-> "pass", minute |-> 10, to |-> Ghost],
   [type |-> "exit", minute |-> 20, actor |-> Ghost],
   [type |-> "goal", minute |-> 46],
   [type |-> "move", minute |-> 46, actor |-> HomeField[1]],
   [type |-> "whistle", minute |-> 60]}

NextComplete ==
  \/ NotifyStart \/ StartDone
  \/ LoopNext \/ LoopExit
  \/ NotifyEvent \/ Sleep \/ NoSleep \/ Wake
  \/ NotifyEnd \/ EndDone
  \/ Return

InitComplete ==
  /\ \E n \in 0..MaxRunEvents : thisEvents \in [1..n -> CompletePool]
  /\ state = initializeState(Len(thisEvents))
  /\ i = 0
  /\ event = NoEvent
  /\ \E n \in 0..MaxDispatchers, p \in PaceChoices :
       run = [pc |-> "start", d |-> 1, n |-> n, paceMs |-> p, delay |-> 0]
  /\ log = <<>>
  /\ load = "none"
  /\ ClockIdle
  /\ ValidatorIdle

SpecComplete ==
  InitComplete /\ [][NextComplete]_vars /\ WF_vars(NextComplete)

\* the state after the first k events of a script, replayed from the start
RECURSIVE Replay(_, _)
Replay(events, k) ==
  IF k = 0 THEN initializeState(Len(events))
  ELSE LoopBody(Replay(events, k - 1), k - 1, events[k])

----------------------------------------------------------------------------
(* The run command: loadMatchScript on a document, then the engine run on   *)
(* the script it returned.  A script that is returned has the thirteen      *)
(* distinct names of the roster.                                            *)

\* a loader that takes a warning for a failure
LoadOutcomeStrict(res) ==
  IF res.valid /\ Len(res.warnings) = 0 THEN "accepted" ELSE "rejected"

\* loadMatchScript throws when the result is not valid, else returns
LoadOutcome(res) == IF res.valid THEN "accepted" ELSE "rejected"

DefaultPace == 4000

\* the console dispatcher is registered unless --no-console is given
RunCommand ==
  /\ load = "none" /\ result = NoResult
  /\ result' = validateScript(doc)
  /\ load' = LoadOutcome(result')
  /\ IF load' = "accepted"
     THEN /\ thisEvents' = ParsedData(doc).events
          /\ state' = initializeState(Len(thisEvents'))
          /\ \E n \in {0, 1} :
               run' = [pc |-> "start", d |-> 1, n |-> n,
                       paceMs |-> DefaultPace, delay |-> 0]
     ELSE UNCHANGED <<thisEvents, state, run>>
  /\ UNCHANGED <<i, event, log, doc, clockVars>>

InitLoad == InitValidate
NextLoad == RunCommand \/ NextRun
SpecLoad == InitLoad /\ [][NextLoad]_vars

----------------------------------------------------------------------------
(* Claims about the validator *)

Returned == result # NoResult
SchemaValid(raw) == SchemaIssues(raw) = <<>>
Count(seq, P(_)) == Cardinality({k \in 1..Len(seq) : P(seq[k])})
Tagged(seq, tag) == Cardinality({k \in 1..Len(seq) : seq[k].tag = tag})

\* nothing is wrong with the document but the lengths of the field lists
OtherwiseWellFormed(raw) ==
  /\ raw.kind = "script"
  /\ Len(raw.match.home.code) = 3 /\ Len(raw.match.away.code) = 3
  /\ EventsIssues(raw.events, 1) = <<>>

FormationErrorsFor(team) ==
  LET Names(e) == /\ e.tag = "formation"
                  /\ e.code = ToUpperCase(team.code)
                  /\ e.count = Len(team.field)
  IN Count(result.errors, Names)

\* C7: for a document that is well-formed but for a field list whose length
\* is not 4, the result holds exactly one [formation] error for that team,
\* with the team's code and the actual count.
C7_FormationError ==
  (Returned /\ doc.kind = "script" /\ OtherwiseWellFormed(doc)) =>
    \A side \in {"home", "away"} :
      Len(doc.match[side].field) # 4 =>
        FormationErrorsFor(doc.match[side]) = 1

Occurrences(raw, n) ==
  Cardinality({k \in 1..Len(NameEntries(raw.match)) :
                 NameEntries(raw.match)[k].name = n})
IdentityErrorsNaming(n) ==
  LET Names(e) == e.tag = "identity" /\ e.name = n
  IN Count(result.errors, Names)

\* C8: for a schema-valid document, a participant name that occurs k times
\* among the thirteen names has k-1 [identity] errors, and there are no
\* other [identity] errors.
C8_IdentityErrors ==
  (Returned /\ SchemaValid(doc)) =>
    /\ \A n \in KnownNames(doc.match) \ {"referee", "pbp", "color"} :
         IdentityErrorsNaming(n) = Occurrences(doc, n) - 1
    /\ Tagged(result.errors, "identity")
         = Len(NameEntries(doc.match))
           - Cardinality({NameEntries(doc.match)[k].name :
                            k \in 1..Len(NameEntries(doc.match))})

\* a name held by three participants, reported twice
C8_Witness ==
  /\ Returned /\ SchemaValid(doc)
  /\ \E n \in DupTargets :
       Occurrences(doc, n) = 3 /\ IdentityErrorsNaming(n) = 2
  /\ Tagged(result.errors, "identity") = 2

PassErrorCount(k, what) ==
  LET Is(e) == e.tag = "events" /\ Has(e, "index") /\ e.index = k /\ e.what = what
  IN Count(result.errors, Is)
PassIndexes(raw) == {k \in 1..Len(raw.events) : raw.events[k].type = "pass"}

\* C9 as stated: a pass has the 'from' error exactly when `from` is absent,
\* the 'to' error exactly when `to` is absent, each once.
C9_PassMissingFields ==
  (Returned /\ SchemaValid(doc)) =>
    \A k \in PassIndexes(doc) :
      /\ PassErrorCount(k - 1, "pass missing 'from'")
           = IF Has(doc.events[k], "from") THEN 0 ELSE 1
      /\ PassErrorCount(k - 1, "pass missing 'to'")
           = IF Has(doc.events[k], "to") THEN 0 ELSE 1

\* C9 as amended: a pass has the 'from' error exactly when `from` is absent
\* or the empty string, the 'to' error exactly when `to` is absent or the
\* empty string, each once and independently of the other.
C9_PassMissingOrEmpty ==
  (Returned /\ SchemaValid(doc)) =>
    \A k \in PassIndexes(doc) :
      /\ PassErrorCount(k - 1, "pass missing 'from'")
           = IF Truthy(doc.events[k], "from") THEN 0 ELSE 1
      /\ PassErrorCount(k - 1, "pass missing 'to'")
           = IF Truthy(doc.events[k], "to") THEN 0 ELSE 1

\* a pass with neither field, reported twice, beside a pass with both
C9_Witness ==
  /\ Returned /\ SchemaValid(doc)
  /\ Len(doc.events) = 2
  /\ doc.events[1] = [type |-> "pass", minute |-> 10]
  /\ doc.events[2].type = "pass"
  /\ Truthy(doc.events[2], "from") /\ Truthy(doc.events[2], "to")
  /\ PassErrorCount(0, "pass missing 'from'") = 1
  /\ PassErrorCount(0, "pass missing 'to'") = 1
  /\ PassErrorCount(1, "pass missing 'from'") = 0
  /\ PassErrorCount(1, "pass missing 'to'") = 0

\* C10: whatever the document, valid is true exactly when the error list is
\* empty, with or without warnings.
C10_ValidIffNoErrors ==
  Returned => (result.valid <=> Len(result.errors) = 0)

\* a valid result that carries warnings
C10_Witness ==
  /\ Returned
  /\ result.valid
  /\ Len(result.errors) = 0
  /\ Len(result.warnings) = 2

\* the number of findings each semantic rule owes a schema-valid document
DuplicateCount(raw) ==
  Len(NameEntries(raw.match))
  - Cardinality({NameEntries(raw.match)[k].name :
                   k \in 1..Len(NameEntries(raw.match))})
UnknownRefs(raw, ev) ==
  {f \in {"actor", "from", "to"} :
     Truthy(ev, f) /\ ev[f] \notin KnownNames(raw.match)}
EventFindings(raw, ev) ==
  Cardinality(UnknownRefs(raw, ev))
  + (IF ev.type \in {"speak", "announce"} /\ ~Truthy(ev, "text") THEN 1 ELSE 0)
  + (IF ev.type = "pass" /\ ~Truthy(ev, "from") THEN 1 ELSE 0)
  + (IF ev.type = "pass" /\ ~Truthy(ev, "to") THEN 1 ELSE 0)
ErrorsAtIndex(k) ==
  LET At(e) == e.tag = "events" /\ Has(e, "index") /\ e.index = k
  IN Count(result.errors, At)
MinuteDrops(raw) ==
  Cardinality({k \in 2..Len(raw.events) :
                 raw.events[k].minute < raw.events[k - 1].minute})
BookendCount(raw) ==
  IF Len(raw.events) = 0 THEN 0
  ELSE (IF raw.events[1].type # "whistle" THEN 1 ELSE 0)
       + (IF raw.events[Len(raw.events)].type # "fulltime" THEN 1 ELSE 0)

\* C11: a document the schema rejects gets valid = false, at least one error,
\* only [schema] errors and no warning; a document the schema accepts gets no
\* [schema] error and the findings of every semantic rule, each rule counted
\* on its own whatever the other rules found.
C11_SchemaShortCircuit ==
  Returned =>
    IF ~SchemaValid(doc)
    THEN /\ ~result.valid
         /\ Len(result.errors) >= 1
         /\ \A k \in 1..Len(result.errors) : result.errors[k].tag = "schema"
         /\ result.warnings = <<>>
    ELSE /\ Tagged(result.errors, "schema") = 0
         /\ Tagged(result.errors, "identity") = DuplicateCount(doc)
         /\ \A k \in 1..Len(doc.events) :
              ErrorsAtIndex(k - 1) = EventFindings(doc, doc.events[k])
         /\ LET NoEvents(e) == e.tag = "events" /\ ~Has(e, "index")
            IN Count(result.errors, NoEvents)
                 = IF Len(doc.events) = 0 THEN 1 ELSE 0
         /\ Len(result.warnings) = MinuteDrops(doc) + BookendCount(doc)
         /\ \A k \in 1..Len(result.warnings) :
              result.warnings[k].tag = "sequence"

\* a document the schema rejects for a field list of three, whose names hold
\* a duplicate the identity rule would have reported
C11_Witness ==
  /\ Returned
  /\ doc.kind = "script"
  /\ Len(doc.match.home.field) = 3
  /\ DuplicateCount(doc) >= 1
  /\ ~result.valid
  /\ Tagged(result.errors, "schema") = Len(result.errors)

RefFields == {"actor", "from", "to"}
UnknownMessage(f) ==
  CASE f = "actor" -> "unknown actor"
    [] f = "from"  -> "unknown 'from'"
    [] f = "to"    -> "unknown 'to'"
UnknownErrorCount(k, f, n) ==
  LET Is(e) == /\ e.tag = "events" /\ Has(e, "index") /\ e.index = k
               /\ e.what = UnknownMessage(f) /\ e.name = n
  IN Count(result.errors, Is)

\* C12 as stated: in a schema-valid document every actor, from or to that is
\* present and outside the known-name set gives its event an [events] error
\* and makes the result invalid; one inside the set gives no unknown-name
\* error.
C12_UnknownReference ==
  (Returned /\ SchemaValid(doc)) =>
    \A k \in 1..Len(doc.events) : \A f \in RefFields :
      Has(doc.events[k], f) =>
        IF doc.events[k][f] \notin KnownNames(doc.match)
        THEN ErrorsAtIndex(k - 1) >= 1 /\ ~result.valid
        ELSE UnknownErrorCount(k - 1, f, doc.events[k][f]) = 0

\* C12 as amended: every actor, from or to that is present, is not the empty
\* string and is outside the known-name set gives its event one [events]
\* error naming it and makes the result invalid; any other gives no
\* unknown-name error.
C12_UnknownNonEmptyReference ==
  (Returned /\ SchemaValid(doc)) =>
    \A k \in 1..Len(doc.events) : \A f \in RefFields :
      IF Truthy(doc.events[k], f)
         /\ doc.events[k][f] \notin KnownNames(doc.match)
      THEN /\ UnknownErrorCount(k - 1, f, doc.events[k][f]) = 1
           /\ ~result.valid
      ELSE LET Is(e) == /\ e.tag = "events" /\ Has(e, "index")
                        /\ e.index = k - 1 /\ e.what = UnknownMessage(f)
           IN Count(result.errors, Is) = 0

\* a pass to a name nobody has, reported once, beside an announcement by the
\* alias "pbp", not reported
C12_Witness ==
  /\ Returned /\ SchemaValid(doc)
  /\ Len(doc.events) = 2
  /\ doc.events[1] = [type |-> "pass", minute |-> 10, from |-> HomeTender,
                      to |-> Ghost]
  /\ doc.events[2] = [type |-> "announce", minute |-> 5, actor |-> "pbp",
                      text |-> "Go"]
  /\ UnknownErrorCount(0, "to", Ghost) = 1
  /\ ErrorsAtIndex(0) = 1 /\ ErrorsAtIndex(1) = 0
  /\ ~result.valid

\* a document without a finding but that its first event is no whistle
WarningOnly(raw) ==
  /\ SchemaValid(raw)
  /\ DuplicateCount(raw) = 0
  /\ Len(raw.events) > 0
  /\ \A k \in 1..Len(raw.events) : EventFindings(raw, raw.events[k]) = 0
  /\ MinuteDrops(raw) = 0
  /\ raw.events[Len(raw.events)].type = "fulltime"
  /\ raw.events[1].type # "whistle"

\* C13: a document with no error, non-decreasing minutes and a closing
\* fulltime, whose first event is no whistle, validates with no error, one
\* [sequence] warning and valid = true; the loader returns its script, and
\* the engine run on it applies all its events, in order.
C13_WarningOnlyAccepted ==
  (load # "none" /\ WarningOnly(doc)) =>
    /\ result.valid
    /\ result.errors = <<>>
    /\ Len(result.warnings) = 1
    /\ result.warnings[1].tag = "sequence"
    /\ load = "accepted"
    /\ thisEvents = doc.events
    /\ state.totalEvents = Len(doc.events)
    /\ state = Replay(doc.events, i)
    /\ run.pc = "done" => i = Len(doc.events)

\* such a document of two events, run to the end
C13_Witness ==
  /\ WarningOnly(doc)
  /\ Len(doc.events) = 2
  /\ load = "accepted"
  /\ Len(result.warnings) = 1
  /\ run.pc = "done"
  /\ i = 2
  /\ state.clock.period = "fulltime"

----------------------------------------------------------------------------
(* The clock on its own: advanceClock called again and again with the same *)
(* minute and added-time, from any clock state.                            *)

ClockStates ==
  [minute : {0, 45}, added : {0, 3}, period : Periods]
ClockArgs == {<<m>> : m \in 0..90} \cup {<<m, 2>> : m \in {45, 90}}

AdvanceAgain ==
  /\ clkCalls < MaxClockCalls
  /\ clk' = advanceClock(clk, clkArg[1], SubSeq(clkArg, 2, Len(clkArg)))
  /\ clkCalls' = clkCalls + 1
  /\ UNCHANGED <<clkArg, engineVars, validatorVars, runVars>>

InitClock ==
  /\ clk \in ClockStates
  /\ clkArg \in ClockArgs
  /\ clkCalls = 0
  /\ EngineIdle
  /\ ValidatorIdle
  /\ RunIdle

NextClock == AdvanceAgain

SpecClock == InitClock /\ [][NextClock]_vars

\* C6: a call of advance that repeats the previous call's minute leaves the
\* period as that previous call left it.
C6_AdvanceIdempotent ==
  [][clkCalls >= 1 => clk'.period = clk.period]_vars

\* the period the three rules give, in their order
RulePeriod(current, minute) ==
  CASE current = "pre" /\ minute = 0 -> "first_half"
    [] ~(current = "pre" /\ minute = 0) /\ current = "halftime" ->
         "second_half"
    [] ~(current = "pre" /\ minute = 0) /\ current # "halftime"
       /\ minute <= 45 -> "first_half"
    [] OTHER -> "second_half"

\* C19: a call of advance returns the given minute, the given added-time or
\* 0 when there is none, and the period of the three rules, from every
\* current clock and for every minute 0..90.
C19_AdvanceResult ==
  [][clkCalls' = clkCalls + 1 =>
       clk' = [minute |-> clkArg[1],
               added  |-> IF Len(clkArg) = 2 THEN clkArg[2] ELSE 0,
               period |-> RulePeriod(clk.period, clkArg[1])]]_vars

\* minute 45 with added-time 2, twice: the first half still
C19_Witness ==
  /\ clkCalls = 2
  /\ clkArg = <<45, 2>>
  /\ clk = [minute |-> 45, added |-> 2, period |-> "first_half"]

----------------------------------------------------------------------------
(* Claims about the run and its dispatchers *)

Collaborators == 1..run.n
CallsOf(call, d) ==
  {k \in 1..Len(log) : log[k].call = call /\ log[k].d = d}
Over == run.pc \in {"done", "failed"}

\* the state as it is before any event: everyone on the pitch and without
\* the ball, the ball dead at the center with no holder, 0-0, pre-match
Untouched(s) ==
  /\ \A n \in DOMAIN s.players :
       s.players[n].onPitch /\ ~s.players[n].hasBall
  /\ s.ball = [holder |-> Null, position |-> Center, dead |-> TRUE]
  /\ s.score = [home |-> 0, away |-> 0]
  /\ s.clock.period = "pre"
  /\ s.eventIndex = 0

\* every onMatchStart comes before any event is applied and any onEvent and
\* sees the initial state; every onMatchEnd comes after the last event's
\* onEvent calls have all returned; no collaborator gets either twice
StartFirstEndLast ==
  /\ \A d \in Collaborators :
       /\ Cardinality(CallsOf("onMatchStart", d)) <= 1
       /\ Cardinality(CallsOf("onMatchEnd", d)) <= 1
  /\ \A k \in 1..Len(log) :
       log[k].call = "onMatchStart" =>
         /\ log[k].index = 0
         /\ Untouched(log[k].seen)
         /\ \A j \in 1..(k - 1) : log[j].call = "onMatchStart"
  /\ \A k \in 1..Len(log) :
       log[k].call = "onMatchEnd" =>
         /\ log[k].index = Len(thisEvents)
         /\ \A j \in 1..(k - 1) : log[j].outcome = "ok"
         /\ Len(thisEvents) > 0 =>
              \A d \in Collaborators :
                \E j \in 1..(k - 1) :
                  /\ log[j].call = "onEvent" /\ log[j].d = d
                  /\ log[j].index = Len(thisEvents)

\* C14 as stated: in every run, whichever way it ends, each collaborator has
\* had onMatchStart once and onMatchEnd once, the first before any event,
\* the second after the last event's notifications.
C14_StartAndEndOnce ==
  /\ StartFirstEndLast
  /\ Over =>
       \A d \in Collaborators :
         /\ Cardinality(CallsOf("onMatchStart", d)) = 1
         /\ Cardinality(CallsOf("onMatchEnd", d)) = 1

\* C14 as amended: the same of every run that no collaborator's failure
\* ends; in a run that a failure ends no collaborator has either call twice
\* and the order and the observed initial state are as stated.
C14_StartAndEndOnceUnlessAborted ==
  /\ StartFirstEndLast
  /\ run.pc = "done" =>
       \A d \in Collaborators :
         /\ Cardinality(CallsOf("onMatchStart", d)) = 1
         /\ Cardinality(CallsOf("onMatchEnd", d)) = 1

\* two collaborators, a script of two events, run to the end
C14_Witness ==
  /\ run.pc = "done" /\ run.n = 2 /\ Len(thisEvents) = 2
  /\ \A d \in Collaborators :
       /\ Cardinality(CallsOf("onMatchStart", d)) = 1
       /\ Cardinality(CallsOf("onMatchEnd", d)) = 1
  /\ log[1].call = "onMatchStart" /\ Untouched(log[1].seen)
  /\ log[Len(log)].call = "onMatchEnd"
  /\ ~Untouched(log[Len(log)].seen)

EventCalls(e, d) ==
  {k \in 1..Len(log) :
     log[k].call = "onEvent" /\ log[k].index = e /\ log[k].d = d}

\* every onEvent carries an event of the script with the state as it is
\* after that event and the events before it, clock advanced and transition
\* applied, and no later event; the events come in document order; no
\* collaborator gets an event twice
EventsInOrder ==
  /\ \A k \in 1..Len(log) :
       log[k].call = "onEvent" =>
         /\ log[k].index \in 1..Len(thisEvents)
         /\ log[k].event = thisEvents[log[k].index]
         /\ log[k].seen = Replay(thisEvents, log[k].index)
         /\ log[k].seen.eventIndex = log[k].index - 1
         /\ log[k].seen.clock.minute = log[k].event.minute
         /\ \A j \in 1..(k - 1) :
              log[j].call = "onEvent" => log[j].index <= log[k].index
  /\ \A e \in 1..Len(thisEvents), d \in Collaborators :
       Cardinality(EventCalls(e, d)) <= 1

\* C15 as stated: in every run, whichever way it ends, onEvent has been
\* issued once for every pair of an event and a collaborator, in document
\* order, each with the state after exactly the events up to its own.
C15_EventOncePerPair ==
  /\ EventsInOrder
  /\ Over =>
       \A e \in 1..Len(thisEvents), d \in Collaborators :
         Cardinality(EventCalls(e, d)) = 1

\* C15 as amended: the same of every run that no collaborator's failure
\* ends; in a run that a failure ends no pair has onEvent twice, and the
\* order and the delivered states are as stated.
C15_EventOncePerPairUnlessAborted ==
  /\ EventsInOrder
  /\ run.pc = "done" =>
       \A e \in 1..Len(thisEvents), d \in Collaborators :
         Cardinality(EventCalls(e, d)) = 1

\* two collaborators and two events, a kickoff then a pass: four onEvent
\* calls, the first two with the tender holding, the last two the defender
C15_Witness ==
  /\ run.pc = "done" /\ run.n = 2 /\ Len(thisEvents) = 2
  /\ IsKickoff(thisEvents[1]) /\ thisEvents[2].type = "pass"
  /\ \A e \in 1..2, d \in Collaborators : Cardinality(EventCalls(e, d)) = 1
  /\ log[3].seen.ball.holder = HomeTender
  /\ log[4].seen.ball.holder = HomeTender
  /\ log[5].seen.ball.holder = HomeField[1]
  /\ log[6].seen.ball.holder = HomeField[1]

\* only the last call can be unsettled, every call before it has returned,
\* and the calls of one checkpoint go to the collaborators in registration
\* order, starting with the first
OneAtATime ==
  /\ \A k \in 1..(Len(log) - 1) : log[k].outcome = "ok"
  /\ Len(log) > 0 => log[1].d = 1
  /\ \A k \in 1..(Len(log) - 1) :
       IF log[k + 1].call = log[k].call /\ log[k + 1].index = log[k].index
       THEN log[k + 1].d = log[k].d + 1
       ELSE log[k].d = run.n /\ log[k + 1].d = 1

\* C16: the notifications never overlap and keep registration order, and
\* while one is in flight the engine changes no state, takes no next event
\* and starts no other notification.
C16_NotificationsSequential ==
  /\ []OneAtATime
  /\ [][Pending => /\ state' = state /\ i' = i /\ event' = event
                   /\ Len(log') = Len(log)]_vars

\* the second collaborator's onEvent in flight, the first one's returned
C16_Witness ==
  /\ Pending
  /\ Len(log) >= 2
  /\ log[Len(log)].call = "onEvent" /\ log[Len(log)].d = 2
  /\ log[Len(log) - 1].call = "onEvent" /\ log[Len(log) - 1].d = 1
  /\ log[Len(log) - 1].outcome = "ok"
  /\ log[Len(log)].seen = state

\* C17: a collaborator call that fails is the last call of the run: the run
\* is over with the error, the call is not made again, no collaborator is
\* called after it, no further event is applied and the state stays as the
\* failing call saw it, that is as the last applied event left it.
C17_FailureAborts ==
  /\ \A k \in 1..Len(log) :
       log[k].outcome = "thrown" =>
         /\ k = Len(log)
         /\ run.pc = "failed"
         /\ i = log[k].index
         /\ state = log[k].seen
         /\ state = Replay(thisEvents, log[k].index)
  /\ run.pc = "failed" => Len(log) > 0 /\ log[Len(log)].outcome = "thrown"

\* the first of two collaborators fails on the first of two events: the
\* second collaborator has not had that event, the second event is not
\* applied
C17_Witness ==
  /\ run.pc = "failed" /\ run.n = 2 /\ Len(thisEvents) = 2
  /\ log[Len(log)].call = "onEvent"
  /\ log[Len(log)].d = 1 /\ log[Len(log)].index = 1
  /\ log[Len(log)].outcome = "thrown"
  /\ EventCalls(1, 2) = {} /\ CallsOf("onMatchEnd", 1) = {}
  /\ i = 1
  /\ state # Replay(thisEvents, 2)

IsMarker(ev, period) ==
  \/ ev.type = period
  \/ ev.type = "whistle" /\ Has(ev, "reason") /\ ev.reason = period

\* C20: with every halftime event and whistle(halftime) the collaborators
\* see the period halftime, with every fulltime event and whistle(fulltime)
\* the period fulltime, whatever the minute and the period before; minute
\* and added-time are the event's, added-time 0 when it has none.
C20_MarkersOverride ==
  \A k \in 1..Len(log) : \A period \in {"halftime", "fulltime"} :
    (log[k].call = "onEvent" /\ IsMarker(log[k].event, period)) =>
      log[k].seen.clock =
        [minute |-> log[k].event.minute,
         added  |-> IF Has(log[k].event, "added") THEN log[k].event.added
                    ELSE 0,
         period |-> period]

\* halftime at 45+2 from the pre-match clock, then a fulltime event at
\* minute 20 from halftime, where the derivation gives second_half
C20_Witness ==
  /\ run.pc = "done" /\ run.n = 1
  /\ thisEvents = <<[type |-> "halftime", minute |-> 45, added |-> 2],
                    [type |-> "fulltime", minute |-> 20]>>
  /\ log[2].seen.clock = [minute |-> 45, added |-> 2, period |-> "halftime"]
  /\ log[3].seen.clock = [minute |-> 20, added |-> 0, period |-> "fulltime"]
  /\ derivePeriod(20, "halftime") = "second_half"

\* C27: the states the collaborators are given and the state of the engine
\* are those of the replay of the script, in which paceMs has no part, so
\* they are the same for every paceMs; the run is suspended for pacing only
\* with paceMs > 0 and only after an event that is not the last has been
\* dispatched to every collaborator.
C27_PacingLeavesState ==
  /\ state = Replay(thisEvents, i)
  /\ run.pc = "done" => i = Len(thisEvents)
  /\ \A k \in 1..Len(log) :
       /\ log[k].seen = Replay(thisEvents, log[k].index)
       /\ log[k].call = "onEvent" => log[k].event = thisEvents[log[k].index]
  /\ run.pc = "pace" =>
       /\ run.paceMs > 0
       /\ i >= 1 /\ i < Len(thisEvents)
       /\ ~Pending
       /\ \A d \in Collaborators :
            \E k \in EventCalls(i, d) : log[k].outcome = "ok"
       /\ \A k \in 1..Len(log) : log[k].call # "onMatchEnd"

\* suspended after the first of two events, a speech of three words, with
\* both collaborators notified and a base delay of 100 ms
C27_Witness ==
  /\ run.pc = "pace" /\ run.paceMs = 100 /\ run.n = 2
  /\ Len(thisEvents) = 2 /\ i = 1
  /\ thisEvents[1].type = "speak"
  /\ run.delay = 600
  /\ Len(log) = 4

Completed ==
  /\ run.pc = "done"
  /\ i = Len(thisEvents)
  /\ state = Replay(thisEvents, Len(thisEvents))
  /\ \A d \in Collaborators :
       /\ Cardinality(CallsOf("onMatchEnd", d)) = 1
       /\ \A k \in CallsOf("onMatchEnd", d) : log[k].outcome = "ok"
       /\ \A e \in 1..Len(thisEvents) : Cardinality(EventCalls(e, d)) = 1

\* C28: when every collaborator call returns, the run comes to its end:
\* every event of the script applied once, in order, and onMatchEnd
\* delivered to every collaborator, also for scripts with unknown names and
\* missing fields.
C28_RunCompletes == <>Completed

\* the end of a run over a pass to a name nobody has and a goal without
\* actor, with two collaborators
C28_Witness ==
  /\ Completed
  /\ run.n = 2
  /\ thisEvents = <<[type |-> "pass", minute |-> 10, to |-> Ghost],
                    [type |-> "goal", minute |-> 46]>>
  /\ Len(log) = 8

====
